---- MODULE Spec2Model ----
(***************************************************************************)
(* Telltale Prediction API (src/main.py) and its launcher (src/run_app.py) *)
(* as state machines.                                                      *)
(*                                                                         *)
(*   Spec          the FastAPI server: the shared active-model state, the  *)
(*                 startup hook and the request handlers, run as           *)
(*                 coroutines on one event loop                            *)
(*   SpecPolarity  the polarity step of preprocess_image on small images   *)
(*   SpecRank      the top-5 ranking of predict / predict_batch            *)
(*   SpecLabels    class-map loading and the label lookup                  *)
(*   SpecLauncher  run_app and its two child processes                     *)
(***************************************************************************)
EXTENDS Integers, Sequences, FiniteSets, TLC

VARIABLES
    \* ---- server (src/main.py) ----
    disk,                \* what the models directory holds (see AssetsOf)
    started,             \* whether startup_event has run
    model,               \* global model: "None" or the name of the loaded model
    class_names,         \* global class_names
    IMG_SIZE,            \* global IMG_SIZE
    current_model_name,  \* global current_model_name
    req,                 \* the requests being served, one coroutine each
    running,             \* the coroutine holding the event loop, or "none"
    \* ---- polarity step of preprocess_image ----
    gray_in,             \* the grayscale image as it entered the polarity step
    gray_img,            \* the grayscale image: [w, h, px]
    avg_bg,              \* sum(corners) / 4, kept in quarters (4 * avg_bg)
    pol_pc,
    \* ---- ranking ----
    predictions,         \* the model's output vector
    top_indices,
    top5,
    prediction,          \* [class, confidence] reported
    rank_pc,
    \* ---- class map ----
    classes_dict,        \* class_map.json: <<label, index>> pairs in storage order
    label_names,         \* the class_names list built from it
    label_idx,           \* a model output index looked up
    label_out,
    label_pc,
    \* ---- launcher (src/run_app.py) ----
    lpc,
    backend_proc,
    frontend_proc,
    terminate_called,
    exit_how

serverVars   == <<disk, started, model, class_names, IMG_SIZE, current_model_name,
                  req, running>>
polarityVars == <<gray_in, gray_img, avg_bg, pol_pc>>
rankVars     == <<predictions, top_indices, top5, prediction, rank_pc>>
labelVars    == <<classes_dict, label_names, label_idx, label_out, label_pc>>
launcherVars == <<lpc, backend_proc, frontend_proc, terminate_called, exit_how>>
vars == <<serverVars, polarityVars, rankVars, labelVars, launcherVars>>

----------------------------------------------------------------------------
(* Sequence helpers (Python list operations)                               *)

Range(s) == {s[i] : i \in 1..Len(s)}

\* s[::-1]
Reverse(s) == [i \in 1..Len(s) |-> s[Len(s) + 1 - i]]

\* s[-k:]
LastK(s, k) == IF Len(s) <= k THEN s ELSE SubSeq(s, Len(s) - k + 1, Len(s))

\* s[:k]
FirstK(s, k) == IF Len(s) <= k THEN s ELSE SubSeq(s, 1, k)

RECURSIVE SumSeq(_)
SumSeq(s) == IF s = <<>> THEN 0 ELSE s[1] + SumSeq(Tail(s))

\* All sequences over S of length 0..n
RECURSIVE SeqsUpTo(_, _)
SeqsUpTo(S, n) ==
    IF n = 0 THEN {<<>>}
    ELSE LET shorter == SeqsUpTo(S, n - 1)
         IN shorter \cup {Append(s, x) : s \in {t \in shorter : Len(t) = n - 1}, x \in S}

----------------------------------------------------------------------------
(* The states of the parts a specification leaves alone                    *)

ServerIdle ==
    /\ disk = "no_models_dir" /\ started = FALSE /\ model = "None"
    /\ class_names = <<>> /\ IMG_SIZE = <<224, 224>>
    /\ current_model_name = "14_telltael_v1"
    /\ req = <<>> /\ running = "none"

PolarityIdle ==
    /\ gray_in = [w |-> 0, h |-> 0, px |-> <<>>] /\ gray_img = gray_in
    /\ avg_bg = 0 /\ pol_pc = "idle"

RankIdle ==
    /\ predictions = <<>> /\ top_indices = <<>> /\ top5 = <<>>
    /\ prediction = [class |-> "", confidence |-> 0] /\ rank_pc = "idle"

LabelIdle ==
    /\ classes_dict = <<>> /\ label_names = <<>> /\ label_idx = 0
    /\ label_out = "" /\ label_pc = "idle"

LauncherIdle ==
    /\ lpc = "idle" /\ backend_proc = "none" /\ frontend_proc = "none"
    /\ terminate_called = {} /\ exit_how = "idle"

----------------------------------------------------------------------------
(* preprocess_image: the polarity step (src/main.py 142-154)               *)

\* Pixel values tried: the extremes and a band around mid-gray.
PixelSpread == 2
MaxSide == 2
Pixels == {0, 255} \cup ((128 - PixelSpread)..(127 + PixelSpread))

\* gray_img.getpixel((x, y)), rows stored one after the other
GetPixel(img, x, y) == img.px[y * img.w + x + 1]

\* corners = [getpixel((0,0)), getpixel((w-1,0)), getpixel((0,h-1)), getpixel((w-1,h-1))]
Corners(img) ==
    << GetPixel(img, 0, 0), GetPixel(img, img.w - 1, 0),
       GetPixel(img, 0, img.h - 1), GetPixel(img, img.w - 1, img.h - 1) >>

\* avg_bg = sum(corners) / 4, in quarters so that it stays an integer
AvgBgQuarters(img) == SumSeq(Corners(img))

ShouldInvert_MidGray(avg4) == avg4 > 4 * 128

\* if avg_bg > 127
ShouldInvert(avg4) == avg4 > 4 * 127

\* ImageOps.invert on an "L" image
Invert(img) == [img EXCEPT !.px = [i \in 1..Len(img.px) |-> 255 - img.px[i]]]

\* the positions of the corners in px
CornerPositions(w, h) == {1, w, (h - 1) * w + 1, h * w}

\* A w x h image with the corner values cv and one value for all the other pixels
ImageOf(w, h, cv, fill) ==
    [w |-> w, h |-> h,
     px |-> [i \in 1..(w * h) |-> IF i \in CornerPositions(w, h) THEN cv[i] ELSE fill]]

InitPolarity ==
    \* images of every size up to MaxSide x MaxSide, with every combination of
    \* corner values
    /\ \E w \in 1..MaxSide, h \in 1..MaxSide :
          \E cv \in [CornerPositions(w, h) -> Pixels], fill \in Pixels :
             gray_in = ImageOf(w, h, cv, fill)
    /\ gray_img = gray_in /\ avg_bg = 0 /\ pol_pc = "gray"
    /\ ServerIdle /\ RankIdle /\ LabelIdle /\ LauncherIdle

PolarityStep ==
    /\ pol_pc = "gray"
    /\ avg_bg' = AvgBgQuarters(gray_img)
    /\ gray_img' = IF ShouldInvert(AvgBgQuarters(gray_img)) THEN Invert(gray_img)
                   ELSE gray_img
    /\ pol_pc' = "polarised"
    /\ UNCHANGED gray_in
    /\ UNCHANGED <<serverVars, rankVars, labelVars, launcherVars>>

NextPolarity == PolarityStep

SpecPolarity == InitPolarity /\ [][NextPolarity]_vars

\* C5 (as claimed): the image is inverted if and only if the average of its four
\* corner pixels exceeds mid-gray, 128; otherwise it is left as it was.
C5_InvertsIffAboveMidGray ==
    pol_pc = "polarised" =>
        LET w == gray_in.w
            h == gray_in.h
            s == gray_in.px[1] + gray_in.px[w] + gray_in.px[(h - 1) * w + 1]
                 + gray_in.px[h * w]
        IN /\ (s > 512) => gray_img.px = [i \in 1..(w * h) |-> 255 - gray_in.px[i]]
           /\ (s <= 512) => gray_img = gray_in

\* C5 (amended): the image is inverted if and only if the average of its four
\* corner pixels exceeds 127 (corner sum above 508); otherwise it is left as it was.
C5_InvertsIffAbove127 ==
    pol_pc = "polarised" =>
        LET w == gray_in.w
            h == gray_in.h
            s == gray_in.px[1] + gray_in.px[w] + gray_in.px[(h - 1) * w + 1]
                 + gray_in.px[h * w]
        IN /\ (s > 508) => gray_img.px = [i \in 1..(w * h) |-> 255 - gray_in.px[i]]
           /\ (s <= 508) => gray_img = gray_in
           /\ avg_bg = s

\* A 2x2 image whose corner average lies in 127.25 .. 128 has been through the step.
C5_Witness ==
    /\ pol_pc = "polarised" /\ gray_in.w = 2 /\ gray_in.h = 2
    /\ SumSeq(gray_in.px) \in 509..512 /\ avg_bg = SumSeq(gray_in.px)
    /\ gray_img # gray_in

----------------------------------------------------------------------------
(* Ranking: np.argsort(predictions)[-5:][::-1] and the label lookup        *)
(* (src/main.py 191-202, 228-239)                                          *)

MaxClasses == 6
MaxProb == 2

\* predictions[idx] for a 0-based idx
At(preds, idx) == preds[idx + 1]

\* np.argsort(predictions): every ordering of the indices 0..n-1 that is ascending
\* in probability. NumPy's default sort is not stable, so equal probabilities may
\* come out in any order.
RECURSIVE ArgSortsOf(_, _)
ArgSortsOf(preds, left) ==
    IF left = {} THEN {<<>>}
    ELSE LET least == {i \in left : \A j \in left : At(preds, i) <= At(preds, j)}
         IN UNION {{<<i>> \o rest : rest \in ArgSortsOf(preds, left \ {i})} : i \in least}

ArgSorts(preds) == ArgSortsOf(preds, 0..(Len(preds) - 1))

Top5Indices_Head(order) == Reverse(FirstK(order, 5))

\* [-5:][::-1]
Top5Indices(order) == Reverse(LastK(order, 5))

\* class_names[idx] if idx < len(class_names) else "Unknown"
LabelOf(names, idx) == IF idx < Len(names) THEN names[idx + 1] ELSE "Unknown"

\* the top5 list of {"class", "confidence"} entries
Top5Of(names, preds, top) ==
    [i \in 1..Len(top) |-> [class |-> LabelOf(names, top[i]),
                            confidence |-> At(preds, top[i])]]

\* predicted_class_name = top5[0]["class"], confidence = predictions[top_indices[0]]
PredictionOf(names, preds, top) ==
    [class |-> Top5Of(names, preds, top)[1].class, confidence |-> At(preds, top[1])]

\* The class-name list of the ranking runs: four labels, so that output indices
\* 4 and above have no label.
RankClassNames == <<"c0", "c1", "c2", "c3">>

ProbVectors(n) == [1..n -> 0..MaxProb]

InitRank ==
    /\ predictions \in UNION {ProbVectors(n) : n \in 1..MaxClasses}
    /\ top_indices = <<>> /\ top5 = <<>>
    /\ prediction = [class |-> "", confidence |-> 0] /\ rank_pc = "predicted"
    /\ ServerIdle /\ PolarityIdle /\ LabelIdle /\ LauncherIdle

Rank ==
    /\ rank_pc = "predicted"
    /\ \E order \in ArgSorts(predictions) :
          LET top == Top5Indices(order)
          IN /\ top_indices' = top
             /\ top5' = Top5Of(RankClassNames, predictions, top)
             /\ prediction' = PredictionOf(RankClassNames, predictions, top)
    /\ rank_pc' = "ranked"
    /\ UNCHANGED <<predictions, serverVars, polarityVars, labelVars, launcherVars>>

NextRank == Rank

SpecRank == InitRank /\ [][NextRank]_vars

\* C6: the ranking lists the 5 classes of highest probability (all of them when the
\* model has fewer than 5), in descending order of probability, each with its own
\* probability, and the single prediction and confidence are the first entry's.
C6_Top5Descending ==
    rank_pc = "ranked" =>
        LET n == Len(predictions)
            k == Len(top_indices)
            listed == {top_indices[i] : i \in 1..k}
        IN /\ k = (IF n < 5 THEN n ELSE 5)
           /\ Len(top5) = k
           /\ listed \subseteq 0..(n - 1)
           /\ Cardinality(listed) = k
           /\ \A i \in 1..(k - 1) :
                 predictions[top_indices[i] + 1] >= predictions[top_indices[i + 1] + 1]
           /\ \A out \in (0..(n - 1)) \ listed : \A in \in listed :
                 predictions[out + 1] <= predictions[in + 1]
           /\ \A i \in 1..k :
                 /\ top5[i].confidence = predictions[top_indices[i] + 1]
                 /\ top5[i].class = (IF top_indices[i] < 4 THEN RankClassNames[top_indices[i] + 1]
                                     ELSE "Unknown")
           /\ prediction.class = top5[1].class
           /\ prediction.confidence = top5[1].confidence
           /\ \A j \in 1..n : prediction.confidence >= predictions[j]

\* A ranked vector of more than 5 classes, with a tie and three distinct values.
C6_Witness ==
    /\ rank_pc = "ranked" /\ Len(predictions) > 5 /\ Len(top_indices) = 5
    /\ Cardinality(Range(predictions)) = 3
    /\ top5[1].confidence > top5[5].confidence

\* A ranked vector of fewer than 5 classes.
C6_WitnessFew == rank_pc = "ranked" /\ Len(predictions) = 3 /\ Len(top5) = 3

----------------------------------------------------------------------------
(* Class-map loading (src/main.py 53-57) and the label lookup              *)

MaxIndex == 3
Labels == {"a", "b", "c"}

\* sorted(classes_dict.items(), key=lambda item: item[1]): Python's sort is stable,
\* entries of equal index keep their storage order
RECURSIVE SortByIndex(_, _)
SortByIndex(items, indices) ==
    IF indices = {} THEN <<>>
    ELSE LET least == CHOOSE m \in indices : \A x \in indices : m <= x
         IN SelectSeq(items, LAMBDA it : it[2] = least)
            \o SortByIndex(items, indices \ {least})

SortedClassNames_Unsorted(dict) == [i \in 1..Len(dict) |-> dict[i][1]]

\* new_class_names = [name for name, idx in sorted_classes]
SortedClassNames(dict) ==
    LET sorted_classes == SortByIndex(dict, {dict[i][2] : i \in 1..Len(dict)})
    IN [i \in 1..Len(sorted_classes) |-> sorted_classes[i][1]]

\* class_map.json files: distinct labels, each with an index, in any storage order
ClassMaps ==
    {d \in SeqsUpTo(Labels \X (0..MaxIndex), Cardinality(Labels)) :
        \A i, j \in 1..Len(d) : i # j => d[i][1] # d[j][1]}

InitLabels ==
    /\ classes_dict \in ClassMaps
    /\ label_names = <<>> /\ label_idx = 0 /\ label_out = "" /\ label_pc = "map"
    /\ ServerIdle /\ PolarityIdle /\ RankIdle /\ LauncherIdle

LoadClassMap ==
    /\ label_pc = "map"
    /\ label_names' = SortedClassNames(classes_dict)
    /\ label_pc' = "loaded"
    /\ UNCHANGED <<classes_dict, label_idx, label_out,
                   serverVars, polarityVars, rankVars, launcherVars>>

LookupLabel ==
    /\ label_pc = "loaded"
    /\ \E idx \in 0..MaxIndex :
          /\ label_idx' = idx
          /\ label_out' = LabelOf(label_names, idx)
    /\ label_pc' = "looked"
    /\ UNCHANGED <<classes_dict, label_names,
                   serverVars, polarityVars, rankVars, launcherVars>>

NextLabels == LoadClassMap \/ LookupLabel

SpecLabels == InitLabels /\ [][NextLabels]_vars

\* the stored indices are exactly 0..n-1, each once
ContiguousIndices(dict) ==
    /\ {dict[i][2] : i \in 1..Len(dict)} = 0..(Len(dict) - 1)
    /\ \A i, j \in 1..Len(dict) : i # j => dict[i][2] # dict[j][2]

\* C7 (as claimed): for every class map, the label reported for output index i is the
\* label the map stores under index i, and "Unknown" when i is at or beyond the
\* length of the class-name list.
C7_LabelIsTheMapsLabel ==
    label_pc = "looked" =>
        IF label_idx >= Len(label_names) THEN label_out = "Unknown"
        ELSE \E e \in 1..Len(classes_dict) :
                classes_dict[e][2] = label_idx /\ classes_dict[e][1] = label_out

\* C7 (amended): when the stored indices are exactly 0..n-1, each once, the label
\* reported for output index i is the label the map stores under index i, and
\* "Unknown" when i is at or beyond the length of the class-name list.
C7_LabelIsTheMapsLabelWhenContiguous ==
    (label_pc = "looked" /\ ContiguousIndices(classes_dict)) =>
        IF label_idx >= Len(classes_dict) THEN label_out = "Unknown"
        ELSE \E e \in 1..Len(classes_dict) :
                classes_dict[e][2] = label_idx /\ classes_dict[e][1] = label_out

\* A contiguous map stored out of index order, looked up inside the list.
C7_Witness ==
    /\ label_pc = "looked" /\ ContiguousIndices(classes_dict)
    /\ Len(classes_dict) = 3 /\ classes_dict[1][2] > classes_dict[2][2]
    /\ label_idx = 0 /\ label_out = classes_dict[2][1]

----------------------------------------------------------------------------
(* The launcher: run_app (src/run_app.py 7-50)                             *)
(*                                                                         *)
(* A child process is "none" (not started), "running", "exited(0)" or      *)
(* "exited(1)" (ended on its own, with that return code) or "stopped"      *)
(* (ended by terminate).  lpc is the statement run_app is at, named by its *)
(* line; exit_how is how run_app was left.  Ctrl+C raises                  *)
(* KeyboardInterrupt at the statement run_app is at.                       *)

\* the print statements and the statement that follows each
AfterPrint ==
    [print12 |-> "print15", print15 |-> "popen_backend", print25 |-> "popen_frontend",
     print33 |-> "print34", print34 |-> "print35", print35 |-> "print36",
     print36 |-> "loop_sleep", print45 |-> "terminate_backend", print50 |-> "exited"]

\* the statements inside the try block (lines 38-43)
InTry == {"loop_sleep", "loop_poll"}

\* proc.terminate(): a running child is stopped
Terminate(proc) == IF proc = "running" THEN "stopped" ELSE proc

\* proc.poll() is not None
Ended(proc) == proc \in {"exited(0)", "exited(1)", "stopped"}

InitLauncher ==
    /\ lpc = "print12" /\ backend_proc = "none" /\ frontend_proc = "none"
    /\ terminate_called = {} /\ exit_how = "running"
    /\ ServerIdle /\ PolarityIdle /\ RankIdle /\ LabelIdle

LauncherOthers == UNCHANGED <<serverVars, polarityVars, rankVars, labelVars>>

\* lines 12, 15, 25, 33-36, 45, 50: a print; after the last one run_app returns
Say ==
    /\ lpc \in DOMAIN AfterPrint
    /\ lpc' = AfterPrint[lpc]
    /\ exit_how' = IF lpc = "print50" THEN "returned" ELSE exit_how
    /\ UNCHANGED <<backend_proc, frontend_proc, terminate_called>>
    /\ LauncherOthers

\* lines 16-19: subprocess.Popen of the backend; it starts the child or raises
PopenBackend ==
    /\ lpc = "popen_backend"
    /\ \/ backend_proc' = "running" /\ lpc' = "sleep2" /\ UNCHANGED exit_how
       \/ backend_proc' = "none" /\ lpc' = "exited" /\ exit_how' = "OSError"
    /\ UNCHANGED <<frontend_proc, terminate_called>>
    /\ LauncherOthers

\* line 22: time.sleep(2)
Sleep2 ==
    /\ lpc = "sleep2" /\ lpc' = "print25"
    /\ UNCHANGED <<backend_proc, frontend_proc, terminate_called, exit_how>>
    /\ LauncherOthers

\* lines 27-31: subprocess.Popen of the frontend; it starts the child or raises
\* (npm missing), and the exception leaves run_app: the call is outside the try
PopenFrontend ==
    /\ lpc = "popen_frontend"
    /\ \/ frontend_proc' = "running" /\ lpc' = "print33" /\ UNCHANGED exit_how
       \/ frontend_proc' = "none" /\ lpc' = "exited" /\ exit_how' = "OSError"
    /\ UNCHANGED <<backend_proc, terminate_called>>
    /\ LauncherOthers

\* line 41: time.sleep(1)
LoopSleep ==
    /\ lpc = "loop_sleep" /\ lpc' = "loop_poll"
    /\ UNCHANGED <<backend_proc, frontend_proc, terminate_called, exit_how>>
    /\ LauncherOthers

\* lines 42-43: leave the loop once either child has ended
LoopPoll ==
    /\ lpc = "loop_poll"
    /\ lpc' = IF Ended(backend_proc) \/ Ended(frontend_proc) THEN "terminate_backend"
              ELSE "loop_sleep"
    /\ UNCHANGED <<backend_proc, frontend_proc, terminate_called, exit_how>>
    /\ LauncherOthers

\* line 48: backend_proc.terminate()
TerminateBackend ==
    /\ lpc = "terminate_backend" /\ lpc' = "terminate_frontend"
    /\ backend_proc' = Terminate(backend_proc)
    /\ terminate_called' = terminate_called \cup {"backend"}
    /\ UNCHANGED <<frontend_proc, exit_how>>
    /\ LauncherOthers

\* line 49: frontend_proc.terminate()
TerminateFrontend ==
    /\ lpc = "terminate_frontend" /\ lpc' = "print50"
    /\ frontend_proc' = Terminate(frontend_proc)
    /\ terminate_called' = terminate_called \cup {"frontend"}
    /\ UNCHANGED <<backend_proc, exit_how>>
    /\ LauncherOthers

\* Ctrl+C: inside the try it is caught (line 44) and the finally block follows;
\* anywhere else, the finally block included, it leaves run_app
KeyboardInterrupt ==
    /\ lpc # "exited"
    /\ IF lpc \in InTry THEN lpc' = "print45" /\ UNCHANGED exit_how
       ELSE lpc' = "exited" /\ exit_how' = "KeyboardInterrupt"
    /\ UNCHANGED <<backend_proc, frontend_proc, terminate_called>>
    /\ LauncherOthers

\* a child ends on its own, with some return code
BackendExits ==
    /\ backend_proc = "running"
    /\ backend_proc' \in {"exited(0)", "exited(1)"}
    /\ UNCHANGED <<lpc, frontend_proc, terminate_called, exit_how>>
    /\ LauncherOthers

FrontendExits ==
    /\ frontend_proc = "running"
    /\ frontend_proc' \in {"exited(0)", "exited(1)"}
    /\ UNCHANGED <<lpc, backend_proc, terminate_called, exit_how>>
    /\ LauncherOthers

NextLauncher ==
    \/ Say \/ PopenBackend \/ Sleep2 \/ PopenFrontend \/ LoopSleep \/ LoopPoll
    \/ TerminateBackend \/ TerminateFrontend
    \/ KeyboardInterrupt \/ BackendExits \/ FrontendExits

SpecLauncher == InitLauncher /\ [][NextLauncher]_vars

\* C10: when run_app has exited, terminate has been called on every child process
\* it started; and the frontend is never started before the backend.
C10_EveryStartedChildTerminated ==
    /\ lpc = "exited" =>
          /\ backend_proc # "none" => "backend" \in terminate_called
          /\ frontend_proc # "none" => "frontend" \in terminate_called
    /\ frontend_proc # "none" => backend_proc # "none"

----------------------------------------------------------------------------
(* The server (src/main.py): the models directory                          *)
(*                                                                         *)
(* disk is "no_models_dir" (MODELS_DIR absent), "empty" (MODELS_DIR holds  *)
(* nothing) or says what MODELS_DIR holds for the default model, beside    *)
(* the other directories of the catalogue below.                           *)

DefaultModel == "14_telltael_v1"

ModelNames ==
    {DefaultModel, "b7_300", "flat", "no_model_file", "no_class_map",
     "corrupt_model", "corrupt_map", "missing"}

DiskStates ==
    {"no_models_dir", "empty", "default_absent", "default_incomplete", "default_complete"}

NoAssets ==
    [dir |-> FALSE, model_file |-> FALSE, class_map_file |-> FALSE,
     model_loads |-> FALSE, map_parses |-> FALSE,
     input_shape |-> <<>>, classes_dict |-> <<>>]

\* A directory with a loadable model.keras and a class_map.json.
Complete(shape, dict) ==
    [dir |-> TRUE, model_file |-> TRUE, class_map_file |-> TRUE,
     model_loads |-> TRUE, map_parses |-> TRUE,
     input_shape |-> shape, classes_dict |-> dict]

\* What os.path.exists, load_model and json.load find for a model name.
\* input_shape uses 0 for None (the batch dimension).
AssetsOn(d, name) ==
    IF d \in {"no_models_dir", "empty"} THEN NoAssets
    ELSE CASE name = DefaultModel ->
                 IF d = "default_complete"
                 THEN Complete(<<0, 224, 224, 3>>, << <<"t0", 0>>, <<"t1", 1>> >>)
                 ELSE IF d = "default_incomplete"
                 THEN [NoAssets EXCEPT !.dir = TRUE, !.class_map_file = TRUE]
                 ELSE NoAssets
           [] name = "b7_300" ->
                 Complete(<<0, 300, 300, 3>>, << <<"s1", 1>>, <<"s0", 0>> >>)
           [] name = "flat" ->
                 Complete(<<0, 784>>, << <<"f0", 0>> >>)
           [] name = "no_model_file" ->
                 [NoAssets EXCEPT !.dir = TRUE, !.class_map_file = TRUE]
           [] name = "no_class_map" ->
                 [NoAssets EXCEPT !.dir = TRUE, !.model_file = TRUE]
           [] name = "corrupt_model" ->
                 [NoAssets EXCEPT !.dir = TRUE, !.model_file = TRUE,
                                  !.class_map_file = TRUE]
           [] name = "corrupt_map" ->
                 [NoAssets EXCEPT !.dir = TRUE, !.model_file = TRUE,
                                  !.class_map_file = TRUE, !.model_loads = TRUE]
           [] OTHER -> NoAssets

AssetsOf(name) == AssetsOn(disk, name)

\* model.predict(input_data)[0] for the one readable image of the uploads: the
\* model's output vector, in percent. b7_300 has three outputs and two labels.
OutputOf(m) ==
    CASE m = DefaultModel -> <<30, 70>>
      [] m = "b7_300" -> <<60, 10, 30>>
      [] OTHER -> <<100>>

----------------------------------------------------------------------------
(* load_model_assets (src/main.py 37-68)                                   *)

\* The globals after the call and the exception it raised ("none": it returned).
Outcome(raised, detail, m, names, size, current) ==
    [raised |-> raised, detail |-> detail, model |-> m, class_names |-> names,
     IMG_SIZE |-> size, current_model_name |-> current]

Unchanged(raised, detail) ==
    Outcome(raised, detail, model, class_names, IMG_SIZE, current_model_name)

LoadModelAssets_NameFirst(name) ==
    LET a == AssetsOf(name)
    IN IF ~(a.model_file /\ a.class_map_file /\ a.model_loads /\ a.map_parses)
       THEN Outcome("FileNotFoundError", <<"not found", name>>,
                    model, class_names, IMG_SIZE, name)
       ELSE Outcome("none", <<>>, name, SortedClassNames(a.classes_dict),
                    IF Len(a.input_shape) = 4
                    THEN <<a.input_shape[2], a.input_shape[3]>> ELSE IMG_SIZE,
                    name)

LoadModelAssets(name) ==
    LET a == AssetsOf(name)
    IN IF ~a.model_file
       THEN Unchanged("FileNotFoundError", <<"Model file not found at ", name>>)
       ELSE IF ~a.class_map_file
       THEN Unchanged("FileNotFoundError", <<"Class map not found at ", name>>)
       ELSE IF ~a.model_loads
       THEN Unchanged("ValueError", <<"load_model failed for ", name>>)
       ELSE IF ~a.map_parses
       THEN Unchanged("JSONDecodeError", <<"json.load failed for ", name>>)
       ELSE Outcome("none", <<>>,
                    name,
                    SortedClassNames(a.classes_dict),
                    \* if model.input_shape and len(model.input_shape) == 4
                    IF Len(a.input_shape) = 4
                    THEN <<a.input_shape[2], a.input_shape[3]>> ELSE IMG_SIZE,
                    name)

\* the globals take the values the call left
ApplyOutcome(o) ==
    /\ model' = o.model
    /\ class_names' = o.class_names
    /\ IMG_SIZE' = o.IMG_SIZE
    /\ current_model_name' = o.current_model_name

----------------------------------------------------------------------------
(* Requests, responses and exceptions                                      *)

Coroutines == {"c1", "c2"}
MaxFiles == 2

\* str.lower() on the strings the requests carry
Lower(str) ==
    CASE str = ".PNG" -> ".png"
      [] str = "XLSX" -> "xlsx"
      [] OTHER -> str

\* Uploads: a name (stem and extension) and what the bytes decode to
Uploads ==
    { [stem |-> "a", ext |-> ".png", content |-> "image"],
      [stem |-> "B", ext |-> ".PNG", content |-> "corrupt"],
      [stem |-> "c", ext |-> ".jpg", content |-> "image"] }

Formats == {"xlsx", "XLSX", "csv"}

EndsWithPng_CaseSensitive(file) == file.ext = ".png"

\* file.filename.lower().endswith(".png")
EndsWithPng(file) == Lower(file.ext) = ".png"

\* except Exception: the classes it catches (KeyboardInterrupt and SystemExit are
\* not among them)
IsException(cls) ==
    cls \in {"HTTPException", "FileNotFoundError", "ValueError", "JSONDecodeError",
             "AttributeError", "UnidentifiedImageError"}

NoResp == [status |-> 0, detail |-> <<>>, body |-> <<>>]
Http(status, detail, body) == [status |-> status, detail |-> detail, body |-> body]

NoLoc == [size |-> <<>>, mdl |-> "", names |-> <<>>, preds |-> <<>>, top |-> <<>>]

IdleSlot ==
    [kind |-> "none", pc |-> "idle", arg |-> <<>>, i |-> 0, results |-> <<>>,
     loc |-> NoLoc, resp |-> NoResp]

\* a handler that runs to its end without awaiting
Served(kind, arg, resp) ==
    [IdleSlot EXCEPT !.kind = kind, !.pc = "done", !.arg = arg, !.resp = resp]

AwaitPoints_EveryStatement == {"await_read", "preprocess", "infer", "lookup", "respond"}

\* The statements at which a handler awaits: contents = await file.read()
\* (lines 182, 222). Control changes hands only there and when a handler ends.
AwaitPoints == {"await_read"}

\* c may run: no other coroutine holds the event loop
Holds(c) == running \in {"none", c}

\* whether c keeps the event loop after a step that leaves it at pc
Yield(c, pc) == running' = IF pc \in AwaitPoints \cup {"done"} THEN "none" ELSE c

\* A new request may be given to c: the server is up, no handler is running, c is
\* not in the middle of a request and is the first such coroutine, and the other
\* coroutines' responses have been sent.
Free(c) ==
    /\ started /\ running = "none"
    /\ req[c].pc \in {"idle", "done"}
    /\ \A d \in Coroutines \ {c} : req[d].pc # "done"
    /\ c = "c1" \/ req["c1"].pc \notin {"idle", "done"}

Globals == <<model, class_names, IMG_SIZE, current_model_name>>
NotServer == <<polarityVars, rankVars, labelVars, launcherVars>>

----------------------------------------------------------------------------
(* startup_event (lines 70-82)                                             *)

Init ==
    /\ disk \in DiskStates
    /\ started = FALSE
    /\ model = "None" /\ class_names = <<>> /\ IMG_SIZE = <<224, 224>>
    /\ current_model_name = "14_telltael_v1"
    /\ req = [c \in Coroutines |-> IdleSlot]
    /\ running = "none"
    /\ PolarityIdle /\ RankIdle /\ LabelIdle /\ LauncherIdle

Startup ==
    /\ ~started
    /\ started' = TRUE
    \* os.makedirs(MODELS_DIR)
    /\ disk' = IF disk = "no_models_dir" THEN "empty" ELSE disk
    \* load the default model if its directory exists; any exception is printed
    /\ IF AssetsOf(DefaultModel).dir
       THEN ApplyOutcome(LoadModelAssets(DefaultModel))
       ELSE UNCHANGED Globals
    /\ UNCHANGED <<req, running, NotServer>>

----------------------------------------------------------------------------
(* list_models (84-100), health (305-307), switch_model (102-108),         *)
(* export_report (258-303)                                                 *)

\* the directories holding both required files
AvailableModels ==
    {d \in ModelNames : AssetsOf(d).dir /\ AssetsOf(d).model_file
                        /\ AssetsOf(d).class_map_file}

\* has_current is FALSE for the bare [] returned when MODELS_DIR does not exist
ListModelsResponse ==
    IF disk = "no_models_dir"
    THEN Http(200, <<>>, [has_current |-> FALSE, models |-> {}, current |-> ""])
    ELSE Http(200, <<>>, [has_current |-> TRUE, models |-> AvailableModels,
                          current |-> current_model_name])

HealthResponse ==
    Http(200, <<>>, [status |-> "ok", model_loaded |-> model # "None", version |-> "2.0"])

ListModels(c) ==
    /\ Free(c)
    /\ req' = [req EXCEPT ![c] = Served("list", <<>>, ListModelsResponse)]
    /\ UNCHANGED <<disk, started, Globals, running, NotServer>>

Health(c) ==
    /\ Free(c)
    /\ req' = [req EXCEPT ![c] = Served("health", <<>>, HealthResponse)]
    /\ UNCHANGED <<disk, started, Globals, running, NotServer>>

\* try: load_model_assets(name) ... except Exception as e: HTTPException(400, str(e))
SwitchModelResponse(name, o) ==
    IF o.raised = "none" THEN Http(200, <<>>, [status |-> "success", model |-> name])
    ELSE IF IsException(o.raised) THEN Http(400, o.detail, <<>>)
    ELSE Http(500, <<>>, <<>>)

SwitchModel(c) ==
    /\ Free(c)
    /\ \E name \in ModelNames :
          LET o == LoadModelAssets(name)
          IN /\ ApplyOutcome(o)
             /\ req' = [req EXCEPT ![c] = Served("switch", name, SwitchModelResponse(name, o))]
    /\ UNCHANGED <<disk, started, running, NotServer>>

\* The try block of export_report: what it returns or raises.
ExportTry(results, format) ==
    IF results = <<>>
    THEN [raised |-> "HTTPException", str |-> "400: No results to export",
          resp |-> Http(400, <<"No results to export">>, <<>>)]
    ELSE IF Lower(format) = "xlsx"
    THEN [raised |-> "none", str |-> "",
          resp |-> Http(200, <<>>, [stream |-> "xlsx", rows |-> Len(results)])]
    ELSE [raised |-> "none", str |-> "",
          resp |-> Http(200, <<>>, [stream |-> "csv", rows |-> Len(results)])]

\* except Exception as e: raise HTTPException(500, f"Report generation failed: {str(e)}")
\* The HTTPException raised inside the try block is an Exception and is caught too.
ExportReportResponse(results, format) ==
    LET t == ExportTry(results, format)
    IN IF t.raised = "none" THEN t.resp
       ELSE IF IsException(t.raised)
       THEN Http(500, <<"Report generation failed: ", t.str>>, <<>>)
       ELSE t.resp

ExportRows == {<<>>, << [filename |-> "a.png", prediction |-> "t1", confidence |-> 70,
                         status |-> "Success"] >>}

ExportReport(c) ==
    /\ Free(c)
    /\ \E results \in ExportRows, format \in Formats :
          req' = [req EXCEPT ![c] = Served("export", [results |-> results, format |-> format],
                                           ExportReportResponse(results, format))]
    /\ UNCHANGED <<disk, started, Globals, running, NotServer>>

----------------------------------------------------------------------------
(* predict (174-211) and predict_batch (213-256)                           *)

FileName(file) == <<file.stem, file.ext>>

\* the for loop of predict_batch from position `from`: the next file that is not
\* skipped (0: none left)
NextPng(files, from) ==
    LET left == {j \in from..Len(files) : EndsWithPng(files[j])}
    IN IF left = {} THEN 0 ELSE CHOOSE j \in left : \A k \in left : j <= k

\* the file a coroutine is working on
CurFile(s) == IF s.kind = "predict" THEN s.arg ELSE s.arg[s.i]

ErrorRecord(file, msg) ==
    [filename |-> FileName(file), prediction |-> "Error", confidence |-> 0,
     status |-> msg]

SuccessRecord(file, loc) ==
    [filename |-> FileName(file),
     prediction |-> PredictionOf(loc.names, loc.preds, loc.top).class,
     confidence |-> PredictionOf(loc.names, loc.preds, loc.top).confidence,
     status |-> "Success",
     top5 |-> Top5Of(loc.names, loc.preds, loc.top)]

\* results.append(rec), then on with the loop to the next await or to the return
AfterRecord(s, rec) ==
    LET results == Append(s.results, rec)
        j == NextPng(s.arg, s.i + 1)
    IN IF j = 0
       THEN [s EXCEPT !.pc = "done", !.i = 0, !.results = <<>>, !.loc = NoLoc,
                      !.resp = Http(200, <<>>, results)]
       ELSE [s EXCEPT !.pc = "await_read", !.i = j, !.results = results, !.loc = NoLoc]

\* an exception in the try block: predict answers 500, predict_batch records it
Raised(s, cls, msg) ==
    IF ~IsException(cls) THEN [s EXCEPT !.pc = "done", !.resp = Http(500, <<>>, <<>>)]
    ELSE IF s.kind = "predict"
    THEN [s EXCEPT !.pc = "done", !.loc = NoLoc,
                   !.resp = Http(500, <<"Prediction failed: ", msg>>, <<>>)]
    ELSE AfterRecord(s, ErrorRecord(CurFile(s), msg))

Step(c, slot) ==
    /\ req' = [req EXCEPT ![c] = slot]
    /\ Yield(c, slot.pc)
    /\ UNCHANGED <<disk, started, Globals, NotServer>>

\* lines 177-178, up to the await of line 182
PredictStart(c) ==
    /\ Free(c)
    /\ \E file \in Uploads :
          Step(c, IF ~EndsWithPng(file)
                  THEN Served("predict", file,
                              Http(400, <<"Only PNG images are allowed.">>, <<>>))
                  ELSE [IdleSlot EXCEPT !.kind = "predict", !.pc = "await_read",
                                        !.arg = file])

\* lines 215-219, up to the await of line 222
BatchStart(c) ==
    /\ Free(c)
    /\ \E files \in SeqsUpTo(Uploads, MaxFiles) :
          Step(c, IF NextPng(files, 1) = 0
                  THEN Served("batch", files, Http(200, <<>>, <<>>))
                  ELSE [IdleSlot EXCEPT !.kind = "batch", !.pc = "await_read",
                                        !.arg = files, !.i = NextPng(files, 1)])

\* contents = await file.read(); image = Image.open(io.BytesIO(contents))
ReadFile(c) ==
    /\ Holds(c) /\ req[c].pc = "await_read"
    /\ Step(c, IF CurFile(req[c]).content = "corrupt"
               THEN Raised(req[c], "UnidentifiedImageError", "cannot identify image file")
               ELSE [req[c] EXCEPT !.pc = "preprocess"])

\* input_data = preprocess_image(image): resized to the IMG_SIZE of this moment
Preprocess(c) ==
    /\ Holds(c) /\ req[c].pc = "preprocess"
    /\ Step(c, [req[c] EXCEPT !.pc = "infer", !.loc.size = IMG_SIZE])

\* predictions = model.predict(input_data)[0]
Infer(c) ==
    /\ Holds(c) /\ req[c].pc = "infer"
    /\ LET shape == AssetsOf(model).input_shape
           s == [req[c] EXCEPT !.loc.mdl = model]
       IN Step(c, IF model = "None"
                  THEN Raised(s, "AttributeError",
                              "'NoneType' object has no attribute 'predict'")
                  ELSE IF Len(shape) # 4 \/ <<shape[2], shape[3]>> # req[c].loc.size
                  THEN Raised(s, "ValueError", "incompatible input shape")
                  ELSE [s EXCEPT !.pc = "lookup", !.loc.preds = OutputOf(model)])

\* top_indices = np.argsort(predictions)[-5:][::-1] and the class_names lookups
Lookup(c) ==
    /\ Holds(c) /\ req[c].pc = "lookup"
    /\ \E order \in ArgSorts(req[c].loc.preds) :
          Step(c, [req[c] EXCEPT !.pc = "respond", !.loc.names = class_names,
                                 !.loc.top = Top5Indices(order)])

\* the return of predict; results.append of predict_batch
Respond(c) ==
    /\ Holds(c) /\ req[c].pc = "respond"
    /\ LET s == req[c]
           rec == SuccessRecord(CurFile(s), s.loc)
       IN Step(c, IF s.kind = "predict"
                  THEN [s EXCEPT !.pc = "done", !.loc = NoLoc,
                                 !.resp = Http(200, <<>>,
                                     [prediction |-> rec.prediction,
                                      confidence |-> rec.confidence,
                                      filename |-> rec.filename, top5 |-> rec.top5])]
                  ELSE AfterRecord(s, rec))

\* the response of a finished handler is sent
Deliver(c) ==
    /\ running = "none" /\ req[c].pc = "done"
    /\ req' = [req EXCEPT ![c] = IdleSlot]
    /\ UNCHANGED <<disk, started, Globals, running, NotServer>>

Next ==
    \/ Startup
    \/ \E c \in Coroutines :
         \/ ListModels(c) \/ Health(c) \/ SwitchModel(c) \/ ExportReport(c)
         \/ PredictStart(c) \/ BatchStart(c)
         \/ ReadFile(c) \/ Preprocess(c) \/ Infer(c) \/ Lookup(c) \/ Respond(c)
         \/ Deliver(c)

Spec == Init /\ [][Next]_vars

----------------------------------------------------------------------------
(* Claims about the server                                                 *)

\* the names that lack model.keras or class_map.json on this disk
LacksAFile(name) ==
    \/ disk \in {"no_models_dir", "empty"}
    \/ name \in {"no_model_file", "no_class_map", "missing"}
    \/ name = "14_telltael_v1" /\ disk \in {"default_absent", "default_incomplete"}

\* C1: a switch-model request naming a model that lacks its model file or its class
\* map is answered 400 and leaves model, class_names, IMG_SIZE and
\* current_model_name as they were.
C1_FailedSwitchChangesNothing ==
    [][\A c \in Coroutines :
          (/\ req'[c] # req[c]
           /\ req'[c].kind = "switch" /\ req'[c].pc = "done"
           /\ LacksAFile(req'[c].arg))
          => /\ req'[c].resp.status = 400
             /\ model' = model
             /\ class_names' = class_names
             /\ IMG_SIZE' = IMG_SIZE
             /\ current_model_name' = current_model_name]_vars

\* A switch to a missing model has been refused while b7_300 is active.
C1_Witness ==
    \E c \in Coroutines :
        /\ req[c].kind = "switch" /\ req[c].pc = "done" /\ req[c].arg = "missing"
        /\ req[c].resp.status = 400
        /\ model = "b7_300" /\ current_model_name = "b7_300" /\ IMG_SIZE = <<300, 300>>

\* C2: an export-report request with an empty result list is answered with a client
\* error (4xx) whose detail is 'No results to export', whatever the format.
C2_EmptyExportIsClientError ==
    \A c \in Coroutines :
        (req[c].kind = "export" /\ req[c].pc = "done" /\ req[c].arg.results = <<>>)
        => /\ req[c].resp.status \in 400..499
           /\ req[c].resp.detail = <<"No results to export">>

\* C3: predict-batch answers with one record per PNG-named file, in upload order
\* (N - M records for N files of which M are not PNG-named); a file whose decode or
\* inference raises gives a record with prediction 'Error', confidence 0 and the
\* error text as status, and the files after it are still processed.
C3_OneRecordPerPngFile ==
    \A c \in Coroutines :
        (req[c].kind = "batch" /\ req[c].pc = "done") =>
            LET files == req[c].arg
                pngs == SelectSeq(files, LAMBDA f : f.ext \in {".png", ".PNG"})
                others == {j \in 1..Len(files) : files[j].ext \notin {".png", ".PNG"}}
                results == req[c].resp.body
            IN /\ req[c].resp.status = 200
               /\ Len(results) = Len(files) - Cardinality(others)
               /\ \A k \in 1..Len(results) :
                     /\ results[k].filename = <<pngs[k].stem, pngs[k].ext>>
                     /\ \/ results[k].status = "Success" /\ results[k].prediction # "Error"
                        \/ /\ results[k].prediction = "Error"
                           /\ results[k].confidence = 0
                           /\ results[k].status \in
                                {"cannot identify image file",
                                 "'NoneType' object has no attribute 'predict'",
                                 "incompatible input shape"}
                     /\ pngs[k].content = "corrupt" =>
                           /\ results[k].prediction = "Error"
                           /\ results[k].status = "cannot identify image file"
                     /\ (disk = "empty" /\ pngs[k].content = "image") =>
                           /\ results[k].prediction = "Error"
                           /\ results[k].status = "'NoneType' object has no attribute 'predict'"

\* A batch of a corrupt PNG (upper-case extension) and a good one: an Error record,
\* then a Success record.
C3_Witness ==
    \E c \in Coroutines :
        /\ req[c].kind = "batch" /\ req[c].pc = "done"
        /\ Len(req[c].arg) = 2
        /\ req[c].arg[1].ext = ".PNG" /\ req[c].arg[1].content = "corrupt"
        /\ req[c].arg[2].ext = ".png"
        /\ Len(req[c].resp.body) = 2
        /\ req[c].resp.body[1].prediction = "Error"
        /\ req[c].resp.body[2].status = "Success"

\* C4: whenever a model is loaded, all four parts of the active-model state are that
\* model's: its name, its class names and its input size (the default 224x224 for
\* a model without a 4-dimensional input shape), none left from an earlier model.
C4_StateIsTheLoadedModels ==
    model # "None" =>
        /\ current_model_name = model
        /\ model \in {"14_telltael_v1", "b7_300", "flat"}
        /\ model = "14_telltael_v1" =>
              class_names = <<"t0", "t1">> /\ IMG_SIZE = <<224, 224>>
        /\ model = "b7_300" => class_names = <<"s0", "s1">> /\ IMG_SIZE = <<300, 300>>
        /\ model = "flat" => class_names = <<"f0">> /\ IMG_SIZE = <<224, 224>>

\* C8: whenever list_models reports a current name, a model of that name is loaded
\* (health reports model_loaded true).
C8_ListedCurrentIsLoaded ==
    \A c \in Coroutines :
        (/\ req[c].kind = "list" /\ req[c].pc = "done"
         /\ req[c].resp = ListModelsResponse
         /\ req[c].resp.body.has_current)
        => /\ HealthResponse.body.model_loaded
           /\ model = req[c].resp.body.current

\* C9: when an image's class_names lookups are done, the IMG_SIZE its preprocessing
\* read, the model that ran and the class_names it looked up are the globals of this
\* same moment (no switch took effect in between), and the labels and the output
\* vector belong to the one model.
C9_OneActiveStatePerImage ==
    \A c \in Coroutines :
        /\ req[c].pc \in {"infer", "lookup", "respond"} => req[c].loc.size = IMG_SIZE
        /\ req[c].pc \in {"lookup", "respond"} => req[c].loc.mdl = model
        /\ req[c].pc = "respond" =>
              /\ req[c].loc.names = class_names
              /\ \/ /\ req[c].loc.mdl = "14_telltael_v1"
                    /\ req[c].loc.names = <<"t0", "t1">>
                    /\ req[c].loc.preds = <<30, 70>>
                    /\ req[c].loc.size = <<224, 224>>
                 \/ /\ req[c].loc.mdl = "b7_300"
                    /\ req[c].loc.names = <<"s0", "s1">>
                    /\ req[c].loc.preds = <<60, 10, 30>>
                    /\ req[c].loc.size = <<300, 300>>

\* A batch whose first image was classified by the default model and whose second,
\* after a switch made while the batch awaited its bytes, by b7_300.
C9_Witness ==
    \E c \in Coroutines :
        /\ req[c].kind = "batch" /\ req[c].pc = "respond"
        /\ Len(req[c].results) = 1
        /\ req[c].results[1].prediction = "t1"
        /\ req[c].loc.mdl = "b7_300"
        /\ \E d \in Coroutines \ {c} :
              req[d].kind = "switch" /\ req[d].arg = "b7_300" /\ req[d].resp.status = 200

====
